---- MODULE Spec2Model ----
(***************************************************************************)
(* Fitting-room synchronisation (process_sync.py): blue and green threads  *)
(* share a room of num_slots slots; a turnstile, one lightswitch per       *)
(* colour, one multiplexer per colour and a room mutex coordinate them.    *)
(* Every semaphore operation and every critical-section body of the source *)
(* is one step of the thread that executes it.                             *)
(***************************************************************************)
EXTENDS Integers, Sequences, FiniteSets, TLC

\* ---------------------------------------------------------------- bounds
MaxSlots == 2
\* the largest total number of threads typed
MaxThreads == 3
\* how far below zero the typed numbers range
MaxNegative == 1

\* ------------------------------------------------------------- constants
BLUE == "Blue"
GREEN == "Green"
Colors == {BLUE, GREEN}

\* value of a semaphore, lock or counter whose object does not exist yet
NoObject == 0 - 1

ThreadIndex == 1..MaxThreads

VARIABLES
    stdin,              \* the numbers still to be read by input()
    mainpc,             \* position of the main thread
    num_slots, num_blue, num_green,
    blue_green_mutex,   \* Semaphore(1): value
    turnstile,          \* Semaphore(1): value
    counter,            \* Lightswitch.counter, per colour
    mutex,              \* Lightswitch.mutex (Semaphore(1)), per colour: value
    num_allowed,        \* num_allowed_blue / num_allowed_green: value per colour
    thread_id,
    room_ctr,
    room_mutex,         \* threading.Lock: 1 free, 0 held
    threads,            \* the list of Thread objects: the colour of each target
    pc,                 \* position of each thread
    current_thread_id,  \* local of each thread, 0 for None
    \* ---- observation of the run (not program state)
    entryOrder,         \* threads in the order of their entry critical sections
    nSession,           \* number of "----- <Color> Only -----" lines printed
    nEmpty,             \* number of ">> Empty Fitting Room" lines printed
    holdSessions,       \* session lines printed since blue_green_mutex was last acquired
    snap,               \* per thread: other colour's counter when it began to wait
    over,               \* per thread: other colour's room entries since then
    holder,             \* the colour whose thread last acquired blue_green_mutex
                        \* and has not seen it released, or "none"
    held                \* per thread: the locks it acquired and did not release

vars == <<stdin, mainpc, num_slots, num_blue, num_green, blue_green_mutex,
          turnstile, counter, mutex, num_allowed, thread_id, room_ctr,
          room_mutex, threads, pc, current_thread_id, entryOrder, nSession,
          nEmpty, holdSessions, snap, over, holder, held>>

inputVars == <<stdin, num_slots, num_blue, num_green>>
syncVars == <<blue_green_mutex, turnstile, counter, mutex, num_allowed,
              thread_id, room_ctr, room_mutex>>
printVars == <<entryOrder, nSession, nEmpty, holdSessions, snap, over>>
obsVars == <<printVars, holder, held>>

\* names of the locks a thread can hold
TURNSTILE == "turnstile"
ROOM_MUTEX == "room_mutex"
LightswitchMutex(c) == IF c = "Blue" THEN "blue_in_room.mutex" ELSE "green_in_room.mutex"

Other(c) == IF c = BLUE THEN GREEN ELSE BLUE

\* -------------------------------------------------------------------- Init
Init ==
    /\ stdin \in {t \in ((0 - MaxNegative)..MaxSlots) \X ((0 - MaxNegative)..MaxThreads)
                            \X ((0 - MaxNegative)..MaxThreads) :
                     t[2] + t[3] <= MaxThreads}
    /\ mainpc = "read_slots"
    /\ num_slots = 0 /\ num_blue = 0 /\ num_green = 0
    /\ blue_green_mutex = NoObject
    /\ turnstile = NoObject
    /\ counter = [c \in Colors |-> NoObject]
    /\ mutex = [c \in Colors |-> NoObject]
    /\ num_allowed = [c \in Colors |-> NoObject]
    /\ thread_id = NoObject
    /\ room_ctr = NoObject
    /\ room_mutex = NoObject
    /\ threads = << >>
    /\ pc = [w \in ThreadIndex |-> "nothread"]
    /\ current_thread_id = [w \in ThreadIndex |-> 0]
    /\ entryOrder = << >>
    /\ nSession = 0
    /\ nEmpty = 0
    /\ holdSessions = 0
    /\ snap = [w \in ThreadIndex |-> NoObject]
    /\ over = [w \in ThreadIndex |-> 0]
    /\ holder = "none"
    /\ held = [w \in ThreadIndex |-> {}]

\* ------------------------------------------------------------ main thread
\* the part of the module that runs after a raise: nothing
workerVars == <<threads, pc, current_thread_id>>

ReadSlots ==
    /\ mainpc = "read_slots"
    /\ num_slots' = Head(stdin)
    /\ stdin' = Tail(stdin)
    /\ mainpc' = IF num_slots' <= 0 THEN "raised" ELSE "read_blue"
    /\ UNCHANGED <<num_blue, num_green, syncVars, workerVars, obsVars>>

ReadBlue ==
    /\ mainpc = "read_blue"
    /\ num_blue' = Head(stdin)
    /\ stdin' = Tail(stdin)
    /\ mainpc' = IF num_blue' < 0 THEN "raised" ELSE "read_green"
    /\ UNCHANGED <<num_slots, num_green, syncVars, workerVars, obsVars>>

ReadGreen ==
    /\ mainpc = "read_green"
    /\ num_green' = Head(stdin)
    /\ stdin' = Tail(stdin)
    /\ mainpc' = IF num_green' < 0 THEN "raised" ELSE "check_total"
    /\ UNCHANGED <<num_slots, num_blue, syncVars, workerVars, obsVars>>

CheckTotalMut ==
    /\ mainpc = "check_total"
    /\ mainpc' = "create_sync"
    /\ UNCHANGED <<inputVars, syncVars, workerVars, obsVars>>

CheckTotal ==
    /\ mainpc = "check_total"
    /\ mainpc' = IF num_blue = 0 /\ num_green = 0 THEN "raised" ELSE "create_sync"
    /\ UNCHANGED <<inputVars, syncVars, workerVars, obsVars>>

\* the initial value of each multiplexer
PermitsMut == num_slots + 1
Permits == num_slots

CreateSync ==
    /\ mainpc = "create_sync"
    /\ blue_green_mutex' = 1
    /\ turnstile' = 1
    /\ counter' = [c \in Colors |-> 0]
    /\ mutex' = [c \in Colors |-> 1]
    /\ num_allowed' = [c \in Colors |-> Permits]
    /\ thread_id' = 0
    /\ room_ctr' = 0
    /\ room_mutex' = 1
    /\ mainpc' = "create_threads"
    /\ UNCHANGED <<inputVars, workerVars, obsVars>>

CreateThreads ==
    /\ mainpc = "create_threads"
    /\ threads' = [i \in 1..(num_blue + num_green) |->
                      IF i <= num_blue THEN BLUE ELSE GREEN]
    /\ pc' = [w \in ThreadIndex |->
                 IF w <= num_blue + num_green THEN "created" ELSE "nothread"]
    /\ mainpc' = "start"
    /\ UNCHANGED <<inputVars, syncVars, current_thread_id, obsVars>>

\* random.shuffle followed by the start loop: the next thread to start is any
\* thread not started yet
StartThread ==
    /\ mainpc = "start"
    /\ \E w \in ThreadIndex :
          /\ pc[w] = "created"
          /\ pc' = [pc EXCEPT ![w] = "turnstile_acquire"]
    /\ mainpc' = IF \A w \in ThreadIndex : pc'[w] # "created" THEN "join" ELSE "start"
    /\ UNCHANGED <<inputVars, syncVars, threads, current_thread_id, obsVars>>

JoinThreads ==
    /\ mainpc = "join"
    /\ \A w \in ThreadIndex : pc[w] \in {"nothread", "done"}
    /\ mainpc' = "done"
    /\ UNCHANGED <<inputVars, syncVars, workerVars, obsVars>>

Main ==
    \/ ReadSlots
    \/ ReadBlue
    \/ ReadGreen
    \/ CheckTotal
    \/ CreateSync
    \/ CreateThreads
    \/ StartThread
    \/ JoinThreads

\* ------------------------------------------------------------ semaphores
\* threading.Semaphore.acquire / threading.Lock.acquire can return
CanAcquire(s) == s > 0

\* --------------------------------------------------- Lightswitch.lock
\* self.mutex.acquire()
LockMutexAcquire(w, c) ==
    /\ pc[w] = "lock_mutex_acquire"
    /\ CanAcquire(mutex[c])
    /\ mutex' = [mutex EXCEPT ![c] = @ - 1]
    /\ held' = [held EXCEPT ![w] = @ \cup {LightswitchMutex(c)}]
    /\ pc' = [pc EXCEPT ![w] = "lock_increment"]
    /\ UNCHANGED <<inputVars, mainpc, blue_green_mutex, turnstile, counter,
                   num_allowed, thread_id, room_ctr, room_mutex, threads,
                   current_thread_id, printVars, holder>>

\* if self.counter == 1
FirstInMut(n) == FALSE
FirstIn(n) == n = 1

\* self.counter += 1; if self.counter == 1: (about to) blue_green_mutex.acquire()
LockIncrement(w, c) ==
    /\ pc[w] = "lock_increment"
    /\ counter' = [counter EXCEPT ![c] = @ + 1]
    /\ IF FirstIn(counter'[c])
          THEN /\ pc' = [pc EXCEPT ![w] = "lock_bg_acquire"]
               \* observation: the thread begins to wait for the other colour
               /\ IF ~CanAcquire(blue_green_mutex)
                     THEN /\ snap' = [snap EXCEPT ![w] = counter[Other(c)]]
                          /\ over' = [over EXCEPT ![w] = 0]
                     ELSE UNCHANGED <<snap, over>>
          ELSE /\ pc' = [pc EXCEPT ![w] = "lock_mutex_release"]
               /\ UNCHANGED <<snap, over>>
    /\ UNCHANGED <<inputVars, mainpc, blue_green_mutex, turnstile, mutex,
                   num_allowed, thread_id, room_ctr, room_mutex, threads,
                   current_thread_id, entryOrder, nSession, nEmpty, holdSessions,
                   holder, held>>

\* blue_green_mutex.acquire()
LockBGAcquire(w, c) ==
    /\ pc[w] = "lock_bg_acquire"
    /\ CanAcquire(blue_green_mutex)
    /\ blue_green_mutex' = blue_green_mutex - 1
    /\ holdSessions' = 0
    /\ holder' = c
    /\ pc' = [pc EXCEPT ![w] = "lock_mutex_release"]
    /\ UNCHANGED <<inputVars, mainpc, turnstile, counter, mutex, num_allowed,
                   thread_id, room_ctr, room_mutex, threads, current_thread_id,
                   entryOrder, nSession, nEmpty, snap, over, held>>

LockMutexReleaseMut(w, c) ==
    /\ pc[w] = "lock_mutex_release"
    /\ pc' = [pc EXCEPT ![w] = "turnstile_release"]
    /\ UNCHANGED <<inputVars, mainpc, syncVars, threads, current_thread_id, obsVars>>

\* self.mutex.release()
LockMutexRelease(w, c) ==
    /\ pc[w] = "lock_mutex_release"
    /\ mutex' = [mutex EXCEPT ![c] = @ + 1]
    /\ held' = [held EXCEPT ![w] = @ \ {LightswitchMutex(c)}]
    /\ pc' = [pc EXCEPT ![w] = "turnstile_release"]
    /\ UNCHANGED <<inputVars, mainpc, blue_green_mutex, turnstile, counter,
                   num_allowed, thread_id, room_ctr, room_mutex, threads,
                   current_thread_id, printVars, holder>>

lock(w, c) ==
    \/ LockMutexAcquire(w, c)
    \/ LockIncrement(w, c)
    \/ LockBGAcquire(w, c)
    \/ LockMutexRelease(w, c)

\* --------------------------------------------------- Lightswitch.unlock
\* self.mutex.acquire()
UnlockMutexAcquire(w, c) ==
    /\ pc[w] = "unlock_mutex_acquire"
    /\ CanAcquire(mutex[c])
    /\ mutex' = [mutex EXCEPT ![c] = @ - 1]
    /\ held' = [held EXCEPT ![w] = @ \cup {LightswitchMutex(c)}]
    /\ pc' = [pc EXCEPT ![w] = "unlock_decrement"]
    /\ UNCHANGED <<inputVars, mainpc, blue_green_mutex, turnstile, counter,
                   num_allowed, thread_id, room_ctr, room_mutex, threads,
                   current_thread_id, printVars, holder>>

\* if self.counter == 0
LastOutMut(n) == FALSE
LastOutEarly(n) == n <= 1
LastOut(n) == n = 0

\* self.counter -= 1; if self.counter == 0: (about to) blue_green_mutex.release()
UnlockDecrement(w, c) ==
    /\ pc[w] = "unlock_decrement"
    /\ counter' = [counter EXCEPT ![c] = @ - 1]
    /\ pc' = [pc EXCEPT ![w] = IF LastOut(counter'[c]) THEN "unlock_bg_release"
                                                       ELSE "unlock_mutex_release"]
    /\ UNCHANGED <<inputVars, mainpc, blue_green_mutex, turnstile, mutex,
                   num_allowed, thread_id, room_ctr, room_mutex, threads,
                   current_thread_id, obsVars>>

\* blue_green_mutex.release()
UnlockBGRelease(w, c) ==
    /\ pc[w] = "unlock_bg_release"
    /\ blue_green_mutex' = blue_green_mutex + 1
    /\ holder' = "none"
    /\ pc' = [pc EXCEPT ![w] = "unlock_mutex_release"]
    /\ UNCHANGED <<inputVars, mainpc, turnstile, counter, mutex, num_allowed,
                   thread_id, room_ctr, room_mutex, threads, current_thread_id,
                   printVars, held>>

\* self.mutex.release(); the thread function returns
UnlockMutexRelease(w, c) ==
    /\ pc[w] = "unlock_mutex_release"
    /\ mutex' = [mutex EXCEPT ![c] = @ + 1]
    /\ held' = [held EXCEPT ![w] = @ \ {LightswitchMutex(c)}]
    /\ pc' = [pc EXCEPT ![w] = "done"]
    /\ UNCHANGED <<inputVars, mainpc, blue_green_mutex, turnstile, counter,
                   num_allowed, thread_id, room_ctr, room_mutex, threads,
                   current_thread_id, printVars, holder>>

unlock(w, c) ==
    \/ UnlockMutexAcquire(w, c)
    \/ UnlockDecrement(w, c)
    \/ UnlockBGRelease(w, c)
    \/ UnlockMutexRelease(w, c)

\* ------------------------------------- blue_thread_func / green_thread_func
TurnstileAcquireMut(w, c) ==
    /\ pc[w] = "turnstile_acquire"
    /\ pc' = [pc EXCEPT ![w] = "lock_mutex_acquire"]
    /\ UNCHANGED <<inputVars, mainpc, syncVars, threads, current_thread_id, obsVars>>

\* turnstile.acquire()
TurnstileAcquire(w, c) ==
    /\ pc[w] = "turnstile_acquire"
    /\ CanAcquire(turnstile)
    /\ turnstile' = turnstile - 1
    /\ held' = [held EXCEPT ![w] = @ \cup {TURNSTILE}]
    /\ pc' = [pc EXCEPT ![w] = "lock_mutex_acquire"]
    /\ UNCHANGED <<inputVars, mainpc, blue_green_mutex, counter, mutex,
                   num_allowed, thread_id, room_ctr, room_mutex, threads,
                   current_thread_id, printVars, holder>>

TurnstileReleaseMut(w, c) ==
    /\ pc[w] = "turnstile_release"
    /\ pc' = [pc EXCEPT ![w] = "allowed_acquire"]
    /\ UNCHANGED <<inputVars, mainpc, syncVars, threads, current_thread_id, obsVars>>

\* turnstile.release()
TurnstileRelease(w, c) ==
    /\ pc[w] = "turnstile_release"
    /\ turnstile' = turnstile + 1
    /\ held' = [held EXCEPT ![w] = @ \ {TURNSTILE}]
    /\ pc' = [pc EXCEPT ![w] = "allowed_acquire"]
    /\ UNCHANGED <<inputVars, mainpc, blue_green_mutex, counter, mutex,
                   num_allowed, thread_id, room_ctr, room_mutex, threads,
                   current_thread_id, printVars, holder>>

\* num_allowed_<color>.acquire()
AllowedAcquire(w, c) ==
    /\ pc[w] = "allowed_acquire"
    /\ CanAcquire(num_allowed[c])
    /\ num_allowed' = [num_allowed EXCEPT ![c] = @ - 1]
    /\ pc' = [pc EXCEPT ![w] = "enter_room_mutex"]
    /\ UNCHANGED <<inputVars, mainpc, blue_green_mutex, turnstile, counter,
                   mutex, thread_id, room_ctr, room_mutex, threads,
                   current_thread_id, obsVars>>

\* with room_mutex: (first block) acquire
EnterRoomMutex(w, c) ==
    /\ pc[w] = "enter_room_mutex"
    /\ CanAcquire(room_mutex)
    /\ room_mutex' = room_mutex - 1
    /\ held' = [held EXCEPT ![w] = @ \cup {ROOM_MUTEX}]
    /\ pc' = [pc EXCEPT ![w] = "enter_body"]
    /\ UNCHANGED <<inputVars, mainpc, blue_green_mutex, turnstile, counter,
                   mutex, num_allowed, thread_id, room_ctr, threads,
                   current_thread_id, printVars, holder>>

\* if room_ctr == 1 (after the increment)
SessionStartsMut(ctr) == ctr >= 1
SessionStarts(ctr) == ctr = 1

\* thread_id += 1
NextIdMut(id) == IF id = 0 THEN 1 ELSE id
NextId(id) == id + 1

\* body of the first with-block, and the release that ends it; safe_print is
\* only called by a thread that holds room_mutex, so its own lock is never
\* contended and the printing is part of the step
EnterBody(w, c) ==
    /\ pc[w] = "enter_body"
    /\ thread_id' = NextId(thread_id)
    /\ room_ctr' = room_ctr + 1
    /\ IF SessionStarts(room_ctr')
          THEN /\ nSession' = nSession + 1
               /\ holdSessions' = holdSessions + 1
          ELSE UNCHANGED <<nSession, holdSessions>>
    /\ current_thread_id' = [current_thread_id EXCEPT ![w] = thread_id']
    /\ room_mutex' = room_mutex + 1
    /\ held' = [held EXCEPT ![w] = @ \ {ROOM_MUTEX}]
    /\ pc' = [pc EXCEPT ![w] = "fit_clothes"]
    \* observation
    /\ entryOrder' = Append(entryOrder, w)
    /\ snap' = [snap EXCEPT ![w] = NoObject]
    /\ over' = [v \in ThreadIndex |->
                   IF v = w THEN 0
                   ELSE IF snap[v] # NoObject /\ threads[v] # c THEN over[v] + 1
                   ELSE over[v]]
    /\ UNCHANGED <<inputVars, mainpc, blue_green_mutex, turnstile, counter,
                   mutex, num_allowed, threads, nEmpty, holder>>

\* fit_clothes(): the sleep ends
FitClothes(w, c) ==
    /\ pc[w] = "fit_clothes"
    /\ pc' = [pc EXCEPT ![w] = "exit_room_mutex"]
    /\ UNCHANGED <<inputVars, mainpc, syncVars, threads, current_thread_id, obsVars>>

ExitRoomMutexMut(w, c) ==
    /\ pc[w] = "exit_room_mutex"
    /\ pc' = [pc EXCEPT ![w] = "allowed_release"]
    /\ UNCHANGED <<inputVars, mainpc, syncVars, threads, current_thread_id, obsVars>>

\* with room_mutex: (second block) acquire
ExitRoomMutex(w, c) ==
    /\ pc[w] = "exit_room_mutex"
    /\ CanAcquire(room_mutex)
    /\ room_mutex' = room_mutex - 1
    /\ held' = [held EXCEPT ![w] = @ \cup {ROOM_MUTEX}]
    /\ pc' = [pc EXCEPT ![w] = "allowed_release"]
    /\ UNCHANGED <<inputVars, mainpc, blue_green_mutex, turnstile, counter,
                   mutex, num_allowed, thread_id, room_ctr, threads,
                   current_thread_id, printVars, holder>>

AllowedReleaseTwice(w, c) ==
    /\ pc[w] = "allowed_release"
    /\ num_allowed' = [num_allowed EXCEPT ![c] = @ + 2]
    /\ pc' = [pc EXCEPT ![w] = "exit_body"]
    /\ UNCHANGED <<inputVars, mainpc, blue_green_mutex, turnstile, counter,
                   mutex, thread_id, room_ctr, room_mutex, threads,
                   current_thread_id, obsVars>>

\* num_allowed_<color>.release()
AllowedRelease(w, c) ==
    /\ pc[w] = "allowed_release"
    /\ num_allowed' = [num_allowed EXCEPT ![c] = @ + 1]
    /\ pc' = [pc EXCEPT ![w] = "exit_body"]
    /\ UNCHANGED <<inputVars, mainpc, blue_green_mutex, turnstile, counter,
                   mutex, thread_id, room_ctr, room_mutex, threads,
                   current_thread_id, obsVars>>

\* if room_ctr == 0 (after the decrement)
RoomEmptyMut(ctr) == ctr <= 1
RoomEmpty(ctr) == ctr = 0

\* room_ctr -= 1
LeaveMut(ctr) == ctr
LeaveTwice(ctr) == ctr - 2
Leave(ctr) == ctr - 1

\* rest of the second with-block, and the release that ends it
ExitBody(w, c) ==
    /\ pc[w] = "exit_body"
    /\ room_ctr' = Leave(room_ctr)
    /\ nEmpty' = IF RoomEmpty(room_ctr') THEN nEmpty + 1 ELSE nEmpty
    /\ room_mutex' = room_mutex + 1
    /\ held' = [held EXCEPT ![w] = @ \ {ROOM_MUTEX}]
    /\ pc' = [pc EXCEPT ![w] = "unlock_mutex_acquire"]
    /\ UNCHANGED <<inputVars, mainpc, blue_green_mutex, turnstile, counter,
                   mutex, num_allowed, thread_id, threads, current_thread_id,
                   entryOrder, nSession, holdSessions, snap, over, holder>>

ThreadFunc(w, c) ==
    \/ TurnstileAcquire(w, c)
    \/ lock(w, c)
    \/ TurnstileRelease(w, c)
    \/ AllowedAcquire(w, c)
    \/ EnterRoomMutex(w, c)
    \/ EnterBody(w, c)
    \/ FitClothes(w, c)
    \/ ExitRoomMutex(w, c)
    \/ AllowedRelease(w, c)
    \/ ExitBody(w, c)
    \/ unlock(w, c)

IsThread(w) == w \in DOMAIN threads

blue_thread_func(w) == IsThread(w) /\ threads[w] = BLUE /\ ThreadFunc(w, BLUE)

green_thread_func(w) == IsThread(w) /\ threads[w] = GREEN /\ ThreadFunc(w, GREEN)

Next ==
    \/ Main
    \/ \E w \in ThreadIndex : blue_thread_func(w)
    \/ \E w \in ThreadIndex : green_thread_func(w)

Spec == Init /\ [][Next]_vars

\* the scheduler runs some thread whenever some thread can take a step (this
\* is weaker than fairness to each thread, which the finite run does not need)
FairSpec == Spec /\ WF_vars(Next)

\* the runs whose typed configuration is valid and has threads of both colours
MixedInit == Init /\ stdin[1] >= 1 /\ stdin[2] >= 1 /\ stdin[3] >= 1
MixedFairSpec == MixedInit /\ [][Next]_vars /\ WF_vars(Next)

\* =================================================================== claims
Created == blue_green_mutex # NoObject
Started(w) == IsThread(w) /\ pc[w] \notin {"created"}
Departed(w) == IsThread(w) /\ pc[w] = "done"
AllDeparted == threads # << >> /\ \A w \in DOMAIN threads : Departed(w)

\* entry bookkeeping done, exit bookkeeping not done yet
Occupying(w) ==
    IsThread(w) /\ pc[w] \in {"fit_clothes", "exit_room_mutex", "allowed_release", "exit_body"}

\* C1: in every reachable state the room occupancy counter room_ctr is at most
\* the number of slots num_slots.
C1_Capacity == Created => room_ctr <= num_slots

\* a thread already holds a fresh permit and waits for room_mutex while the
\* room counter is still at capacity
C1_Witness ==
    /\ Created
    /\ room_ctr = num_slots
    /\ \E w \in DOMAIN threads : pc[w] = "enter_room_mutex"
    /\ \E w \in DOMAIN threads : pc[w] = "exit_body"

\* C2: all threads in the Occupying state have the same colour.
C2_NoMixing ==
    \A v, w \in DOMAIN threads : Occupying(v) /\ Occupying(w) => threads[v] = threads[w]

C2_Witness ==
    \E v, w, x \in DOMAIN threads :
        /\ v # w /\ Occupying(v) /\ Occupying(w)
        /\ threads[x] # threads[v] /\ pc[x] = "lock_bg_acquire"

\* C3: under a fair scheduler, every run whose typed configuration has a
\* positive number of slots, at least one blue and at least one green thread
\* reaches the state in which every thread has returned.
C3_AllDepart ==
    (Len(stdin) = 3 /\ stdin[1] >= 1 /\ stdin[2] >= 1 /\ stdin[3] >= 1) => <>AllDeparted

C3_Witness == AllDeparted /\ num_blue >= 1 /\ num_green >= 1 /\ mainpc = "done"

\* the thread is at an acquire that cannot return
Blocked(w) ==
    LET c == threads[w] IN
    \/ pc[w] = "turnstile_acquire" /\ ~CanAcquire(turnstile)
    \/ pc[w] \in {"lock_mutex_acquire", "unlock_mutex_acquire"} /\ ~CanAcquire(mutex[c])
    \/ pc[w] = "lock_bg_acquire" /\ ~CanAcquire(blue_green_mutex)
    \/ pc[w] = "allowed_acquire" /\ ~CanAcquire(num_allowed[c])
    \/ pc[w] \in {"enter_room_mutex", "exit_room_mutex"} /\ ~CanAcquire(room_mutex)

\* C4: no reachable state has a thread that has not departed while every
\* thread that has not departed is blocked on an acquire, whatever the mix of
\* colours (one colour may have no thread).
C4_NoDeadlock ==
    ~(/\ \E w \in DOMAIN threads : ~Departed(w)
      /\ \A w \in DOMAIN threads : ~Departed(w) => Blocked(w))

\* a single-colour run in which all but one of the remaining threads are blocked
C4_Witness ==
    /\ num_blue = 0
    /\ Cardinality({w \in DOMAIN threads : Blocked(w)}) = 1
    /\ Cardinality({w \in DOMAIN threads : ~Departed(w)}) = 2

\* C5: while a thread that began to wait for blue_green_mutex (holding the
\* turnstile) has not entered the room, the other colour's room entries since
\* that moment number at most the other colour's lightswitch counter at that
\* moment.
C5_StarvationBound ==
    \A w \in ThreadIndex : snap[w] # NoObject => over[w] <= snap[w]

C5_Witness ==
    \E w \in DOMAIN threads :
        /\ snap[w] = MaxSlots /\ over[w] = snap[w]
        /\ pc[w] = "lock_bg_acquire"

\* C6: the n-th thread to run the entry critical section holds ID n, and no
\* two threads hold the same ID.
C6_Ids ==
    /\ \A i \in 1..Len(entryOrder) : current_thread_id[entryOrder[i]] = i
    /\ \A v, w \in ThreadIndex :
          v # w /\ current_thread_id[v] # 0 => current_thread_id[v] # current_thread_id[w]

C6_Witness ==
    /\ Len(entryOrder) = MaxThreads
    /\ threads[entryOrder[1]] = GREEN
    /\ threads[entryOrder[2]] = BLUE

\* C7: the empty-room line is printed in exactly the steps that take room_ctr
\* from 1 to 0, once each.
C7_EmptyEvent ==
    [][/\ (nEmpty' # nEmpty) <=> (room_ctr = 1 /\ room_ctr' = 0)
       /\ nEmpty' \in {nEmpty, nEmpty + 1}]_vars

\* two threads overlapped in the room, so one departure printed nothing
C7_Witness == nEmpty = 1 /\ AllDeparted /\ Len(threads) = 2

\* C8 as stated: the session line is printed once per interval in which one
\* colour continuously holds the room (blue_green_mutex).
C8_OncePerHold == holdSessions <= 1

\* C8 amended: the session line is printed in exactly the steps that take
\* room_ctr from 0 to 1, once each, i.e. once per maximal interval of
\* room_ctr > 0; one hold of blue_green_mutex may contain several of them.
C8_SessionEvent ==
    [][/\ (nSession' # nSession) <=> (room_ctr = 0 /\ room_ctr' = 1)
       /\ nSession' \in {nSession, nSession + 1}]_vars

C8_Witness == holdSessions = 2 /\ room_ctr = 1

ValidConfiguration ==
    num_slots >= 1 /\ num_blue >= 0 /\ num_green >= 0 /\ num_blue + num_green >= 1

\* C9: a run whose configuration is rejected has no semaphore, no lock and no
\* thread, in any state; semaphores and threads exist only under a valid
\* configuration.
C9_Rejected ==
    /\ mainpc = "raised" =>
          /\ ~ValidConfiguration
          /\ ~Created
          /\ turnstile = NoObject /\ room_mutex = NoObject
          /\ \A c \in Colors : mutex[c] = NoObject /\ num_allowed[c] = NoObject
          /\ threads = << >>
          /\ \A w \in ThreadIndex : pc[w] = "nothread"
    /\ (Created \/ threads # << >> \/ \E w \in ThreadIndex : pc[w] # "nothread")
          => ValidConfiguration

\* scenario D: a positive capacity and no thread of either colour
C9_Witness == mainpc = "raised" /\ num_slots >= 1 /\ stdin = << >>

\* C10: when all threads have departed, room_ctr is 0, the ID counter equals
\* the number of threads and every thread entered the room exactly once.
C10_Final ==
    AllDeparted =>
        /\ room_ctr = 0
        /\ thread_id = num_blue + num_green
        /\ Len(entryOrder) = num_blue + num_green
        /\ \A w \in DOMAIN threads :
              Cardinality({i \in 1..Len(entryOrder) : entryOrder[i] = w}) = 1

C10_Witness == AllDeparted /\ num_blue >= 1 /\ num_green >= 1 /\ Len(threads) = MaxThreads /\ num_slots = 1

\* positions of a thread that has returned from Lightswitch.lock and has not
\* returned from Lightswitch.unlock
PastLock(w) ==
    IsThread(w) /\ pc[w] \in {"turnstile_release", "allowed_acquire", "enter_room_mutex",
                              "enter_body", "fit_clothes", "exit_room_mutex",
                              "allowed_release", "exit_body", "unlock_mutex_acquire",
                              "unlock_decrement", "unlock_bg_release",
                              "unlock_mutex_release"}

\* the thread is the last of its colour, has released blue_green_mutex in
\* unlock and still holds the lightswitch's mutex
ReleasedInUnlock(w) ==
    IsThread(w) /\ pc[w] = "unlock_mutex_release" /\ counter[threads[w]] = 0

\* C11 as stated: all threads that have returned from Lightswitch.lock and
\* have not returned from Lightswitch.unlock have the same colour, a thread
\* that already released blue_green_mutex inside unlock included.
C11_SameColourPastLock ==
    \A v, w \in DOMAIN threads : PastLock(v) /\ PastLock(w) => threads[v] = threads[w]

\* C11 amended: all threads that have returned from Lightswitch.lock and have
\* not yet released blue_green_mutex as the last of their colour in unlock
\* have the same colour.
C11_SameColourUntilRelease ==
    \A v, w \in DOMAIN threads :
        /\ PastLock(v) /\ ~ReleasedInUnlock(v)
        /\ PastLock(w) /\ ~ReleasedInUnlock(w)
        => threads[v] = threads[w]

\* a thread of one colour is in the room while a thread of the other colour
\* has passed the turnstile and is held at blue_green_mutex, and a second
\* thread of the first colour is already in unlock
C11_Witness ==
    \E v, w, x \in DOMAIN threads :
        /\ pc[v] = "fit_clothes" /\ pc[w] = "unlock_mutex_release" /\ threads[v] = threads[w]
        /\ pc[x] = "lock_bg_acquire" /\ threads[x] # threads[v]

\* blue_green_mutex is held on behalf of colour c
HeldFor(c) == blue_green_mutex = 0 /\ holder = c

\* C12 as stated: in every reachable state a lightswitch's counter is 0 if and
\* only if blue_green_mutex is not held on behalf of its colour.
C12_CounterIffHeld ==
    Created => \A c \in Colors : (counter[c] = 0) <=> ~HeldFor(c)

\* C12 amended: the equivalence holds in every reachable state in which the
\* lightswitch's own mutex is free (no thread is inside its lock or unlock).
C12_CounterIffHeldQuiescent ==
    Created => \A c \in Colors : mutex[c] = 1 => ((counter[c] = 0) <=> ~HeldFor(c))

\* both directions at once: one colour holds with two threads registered, the
\* other colour's lightswitch is at rest with counter 0
C12_Witness ==
    \E c \in Colors :
        /\ mutex[c] = 1 /\ counter[c] = 2 /\ HeldFor(c)
        /\ mutex[Other(c)] = 1 /\ counter[Other(c)] = 0
        /\ \E w \in DOMAIN threads : threads[w] = Other(c) /\ pc[w] = "done"

\* C13: a thread at the acquire of its colour's capacity semaphore holds
\* neither the turnstile, nor a lightswitch mutex, nor room_mutex.
C13_AcquireHoldsNothing ==
    \A w \in DOMAIN threads : pc[w] = "allowed_acquire" => held[w] = {}

\* a thread is blocked at the capacity semaphore while another thread holds
\* the turnstile
C13_Witness ==
    \E w, v \in DOMAIN threads :
        /\ pc[w] = "allowed_acquire" /\ num_allowed[threads[w]] = 0
        /\ TURNSTILE \in held[v]

\* the guards: the locks that protect a counter's read-modify-write
Guards == {LightswitchMutex(BLUE), LightswitchMutex(GREEN), ROOM_MUTEX}

\* C14 as stated: no thread is blocked on an acquire while it holds a guard
\* (a lightswitch mutex or room_mutex), and no blocked thread holds more than
\* one lock. (blue_green_mutex is held on behalf of a colour, not by a thread.)
C14_NoGuardWhileBlocked ==
    \A w \in DOMAIN threads :
        Blocked(w) => held[w] \cap Guards = {} /\ Cardinality(held[w]) <= 1

\* C14 amended: a thread blocked at the acquire of blue_green_mutex inside
\* Lightswitch.lock holds exactly the turnstile and its lightswitch's mutex;
\* a thread blocked at any other acquire holds no guard and at most one lock.
C14_GuardOnlyAtExclusionWait ==
    \A w \in DOMAIN threads :
        Blocked(w) =>
            IF pc[w] = "lock_bg_acquire"
               THEN held[w] = {TURNSTILE, LightswitchMutex(threads[w])}
               ELSE held[w] \cap Guards = {} /\ Cardinality(held[w]) <= 1

\* one thread is blocked at blue_green_mutex while the other colour is in the
\* room, and a second thread is blocked behind it at the turnstile
C14_Witness ==
    \E w, v, x \in DOMAIN threads :
        /\ Blocked(w) /\ pc[w] = "lock_bg_acquire"
        /\ Blocked(v) /\ pc[v] = "turnstile_acquire"
        /\ pc[x] = "fit_clothes"

\* C15: blue_green_mutex is acquired only by a thread that took its
\* lightswitch's counter from 0 to 1, while no colour holds it; it is released
\* only by a thread that took the counter of the holding colour's lightswitch
\* from 1 to 0; its value is 0 or 1, and 0 exactly while a colour holds it.
C15_ExclusionDiscipline ==
    /\ [](Created => /\ blue_green_mutex \in {0, 1}
                     /\ (blue_green_mutex = 0) <=> (holder # "none"))
    /\ [][/\ blue_green_mutex' < blue_green_mutex =>
                \E w \in DOMAIN threads :
                    /\ pc[w] = "lock_bg_acquire" /\ pc'[w] # pc[w]
                    /\ counter[threads[w]] = 1
                    /\ holder = "none" /\ holder' = threads[w]
          /\ (Created /\ blue_green_mutex' > blue_green_mutex) =>
                \E w \in DOMAIN threads :
                    /\ pc[w] = "unlock_bg_release" /\ pc'[w] # pc[w]
                    /\ counter[threads[w]] = 0
                    /\ holder = threads[w] /\ holder' = "none"
          /\ \A w \in DOMAIN threads :
                /\ (pc[w] # "lock_bg_acquire" /\ pc'[w] = "lock_bg_acquire") =>
                      counter[threads[w]] = 0 /\ counter'[threads[w]] = 1
                /\ (pc[w] # "unlock_bg_release" /\ pc'[w] = "unlock_bg_release") =>
                      counter[threads[w]] = 1 /\ counter'[threads[w]] = 0
         ]_vars

\* the lock has passed from one colour to the other, which holds it with two
\* threads registered
C15_Witness ==
    \E c \in Colors :
        /\ HeldFor(c) /\ counter[c] = 2
        /\ \E w \in DOMAIN threads : threads[w] = Other(c) /\ pc[w] = "done"
        /\ \E w \in DOMAIN threads : threads[w] = c /\ pc[w] = "unlock_mutex_acquire"

\* positions between turnstile.acquire() and turnstile.release()
InTurnstile(w) ==
    IsThread(w) /\ pc[w] \in {"lock_mutex_acquire", "lock_increment", "lock_bg_acquire",
                              "lock_mutex_release", "turnstile_release"}

\* C16: while a thread is at the acquire of blue_green_mutex inside
\* Lightswitch.lock it holds the turnstile and its lightswitch's mutex, no
\* other thread is between the turnstile's acquire and release, its colour's
\* counter is exactly 1 and no other thread of its colour has returned from
\* lock without having finished unlock.
C16_WaiterBlocksArrivals ==
    \A w \in DOMAIN threads :
        pc[w] = "lock_bg_acquire" =>
            /\ held[w] = {TURNSTILE, LightswitchMutex(threads[w])}
            /\ turnstile = 0 /\ mutex[threads[w]] = 0
            /\ counter[threads[w]] = 1
            /\ \A v \in DOMAIN threads :
                  v # w => /\ ~InTurnstile(v)
                           /\ TURNSTILE \notin held[v]
                           /\ threads[v] = threads[w] => ~PastLock(v)

\* the waiter is blocked by the other colour, and a thread of its own colour
\* is blocked behind it at the turnstile
C16_Witness ==
    \E w, v \in DOMAIN threads :
        /\ pc[w] = "lock_bg_acquire" /\ HeldFor(Other(threads[w]))
        /\ v # w /\ threads[v] = threads[w] /\ pc[v] = "turnstile_acquire"

\* C17: a thread that has released its permit and not yet decremented
\* room_ctr holds room_mutex, no other thread is inside a room_mutex block,
\* and room_ctr is at most num_slots.
C17_LeaveIsOneSection ==
    \A w \in DOMAIN threads :
        pc[w] = "exit_body" =>
            /\ ROOM_MUTEX \in held[w] /\ room_mutex = 0
            /\ \A v \in DOMAIN threads :
                  v # w => pc[v] \notin {"enter_body", "allowed_release", "exit_body"}
            /\ room_ctr <= num_slots

\* the released permit is already taken by a thread that now waits for
\* room_mutex, while room_ctr still counts the leaving thread
C17_Witness ==
    \E w, v \in DOMAIN threads :
        /\ pc[w] = "exit_body" /\ pc[v] = "enter_room_mutex"
        /\ threads[v] = threads[w]
        /\ num_allowed[threads[w]] = 0 /\ room_ctr = num_slots

\* entry critical section completed, exit critical section not begun
InRoom(w) == IsThread(w) /\ pc[w] \in {"fit_clothes", "exit_room_mutex"}

\* C18: room_ctr is never negative; whenever room_mutex is free it equals the
\* number of threads between their entry and exit critical sections; a thread
\* in or past its exit critical section has run its entry critical section.
C18_CounterMatchesRoom ==
    Created =>
        /\ room_ctr >= 0
        /\ room_mutex = 1 => room_ctr = Cardinality({w \in DOMAIN threads : InRoom(w)})
        /\ \A w \in DOMAIN threads :
              pc[w] \in {"allowed_release", "exit_body", "unlock_mutex_acquire",
                         "unlock_decrement", "unlock_bg_release",
                         "unlock_mutex_release", "done"}
                  => \E i \in 1..Len(entryOrder) : entryOrder[i] = w

C18_Witness ==
    /\ room_mutex = 1 /\ room_ctr = 2
    /\ \E w \in DOMAIN threads : pc[w] = "done"

\* the thread has acquired a permit and not released it
HasPermit(w) ==
    IsThread(w) /\ pc[w] \in {"enter_room_mutex", "enter_body", "fit_clothes",
                              "exit_room_mutex", "allowed_release"}

\* C19: each capacity semaphore's value lies in 0..num_slots and equals
\* num_slots minus the number of threads of its colour that hold a permit.
C19_Permits ==
    Created =>
        \A c \in Colors :
            /\ num_allowed[c] \in 0..num_slots
            /\ num_allowed[c] = num_slots -
                  Cardinality({w \in DOMAIN threads : threads[w] = c /\ HasPermit(w)})

\* all permits are out again after one was returned
C19_Witness ==
    \E c \in Colors :
        /\ num_allowed[c] = 0 /\ num_slots = MaxSlots
        /\ \E w \in DOMAIN threads : threads[w] = c /\ pc[w] = "done"

\* C20: whenever blue_green_mutex is free, room_ctr is 0 and no thread holds
\* a capacity permit.
C20_FreeMeansEmpty ==
    (Created /\ blue_green_mutex = 1) =>
        /\ room_ctr = 0
        /\ \A c \in Colors : num_allowed[c] = num_slots
        /\ \A w \in DOMAIN threads : ~HasPermit(w) /\ ~Occupying(w)

\* one colour has used the room and released the lock; the other colour is
\* about to take it
C20_Witness ==
    /\ blue_green_mutex = 1 /\ nEmpty >= 1
    /\ \E w, v \in DOMAIN threads :
          /\ pc[w] = "unlock_mutex_release"
          /\ pc[v] = "lock_bg_acquire" /\ threads[v] # threads[w]

====
